---- MODULE Spec2Model ----
(***************************************************************************)
(* A model of the UnionStation dispatcher (src/unnamed/part_001) together  *)
(* with arrayMin, Completer and debounceIdleCallback.                      *)
(*                                                                         *)
(* One action per handler run on the control thread: call(), the resumed   *)
(* continuation of a call() that awaited isReady, #onMessage for "setup"   *)
(* and for "done", and the two idle callbacks (#updateEstimates, #reflow). *)
(* Durations and estimates are JavaScript numbers; they are modelled as    *)
(* exact rationals <<numerator, denominator>> in lowest terms, so that a   *)
(* mean is compared exactly rather than within a rounding tolerance.       *)
(* The workers themselves are outside the repository: a worker sends one   *)
(* "setup", and one "done" for each call message that was posted to it.    *)
(***************************************************************************)
EXTENDS Integers, Sequences, FiniteSets, TLC

\* ---- bounds of the model ------------------------------------------------
MaxWorkers == 2
MaxLocalQueue == 1
MaxJobs == 3
MaxDups == 1

\* ---- program constants and input domains --------------------------------
FallbackTime == 10
\* one registered job type; with or without a seed it covers both kinds of
\* Estimate Table entry
JobNames == {"add"}
Durations == {4, 6}
\* the timeSnapshot option: absent, or the README's { add: 2 }
Snapshots == {<<>>, [n \in {"add"} |-> 2]}

VARIABLES
    workerCount,        \* this.#workers.length (fixed by the constructor)
    localQueueSize,     \* this.#localQueueSize
    workerStatus,       \* this.#workerStatus : index -> [estimate, running]
    jobId,              \* this.#jobId
    jobs,               \* keys of this.#jobs (ids with a stored completer)
    futures,            \* the Completer made for each id
    readyCount,         \* this.#readyCount
    isReady,            \* this.#isReady.isCompleted
    estimates,          \* this.#estimates : name -> [length, mean]
    pendingEstimates,   \* this.#pendingEstimates
    globalQueue,        \* this.#globalQueue
    updateScheduled,    \* `scheduled` of the #updateEstimates debounce
    reflowScheduled,    \* `scheduled` of the #reflow debounce
    idle,               \* callbacks handed to requestIdleCallback, not yet run
    waiting,            \* call()s suspended at `await this.isReady`
    sent,               \* postMessage log of each worker
    setupSent,          \* worker has posted its "setup"
    completed,          \* ids each worker has posted "done" for
    doneCount,          \* "done" events received from each worker
    dups,               \* duplicate "done" events posted so far
    seeded,             \* names the constructor seeded from timeSnapshot
    samples,            \* every {name, dt} received in a "done", in order
    admitted,           \* id -> [w, est] recorded when #schedule admitted it
    last                \* the handler that ran last, with its inputs/outcome
                        \* (n: entries handled; for a "done", its result)

vars == <<workerCount, localQueueSize, workerStatus, jobId, jobs, futures,
          readyCount, isReady, estimates, pendingEstimates, globalQueue,
          updateScheduled, reflowScheduled, idle, waiting, sent, setupSent,
          completed, doneCount, dups, seeded, samples, admitted, last>>

\* ---- exact rationals ----------------------------------------------------
RECURSIVE GCD(_, _)
GCD(a, b) == IF b = 0 THEN a ELSE GCD(b, a % b)

Abs(x) == IF x < 0 THEN -x ELSE x

Norm(n, d) ==
    LET g == GCD(Abs(n), d)
    IN  IF g = 0 THEN <<0, 1>> ELSE <<n \div g, d \div g>>

RInt(i) == <<i, 1>>
RAdd(x, y) == Norm(x[1] * y[2] + y[1] * x[2], x[2] * y[2])
RSub(x, y) == Norm(x[1] * y[2] - y[1] * x[2], x[2] * y[2])
RLess(x, y) == x[1] * y[2] < y[1] * x[2]
RIsNeg(x) == x[1] < 0

Workers == 0 .. (workerCount - 1)

\* ---- arrayMin (src/unnamed/part_004) ------------------------------------
\* `vals` is fn mapped over the array; the result is the 0-based minIdx.
RECURSIVE ArrayMinLoop(_, _, _, _)
ArrayMinLoop(vals, i, min, minIdx) ==
    IF i >= Len(vals) THEN minIdx
    ELSE IF RLess(vals[i + 1], min)
         THEN ArrayMinLoop(vals, i + 1, vals[i + 1], i)
         ELSE ArrayMinLoop(vals, i + 1, min, minIdx)

arrayMin(vals) == ArrayMinLoop(vals, 1, vals[1], 0)

\* ---- #getEstimate -------------------------------------------------------
getEstimate(est, type) ==
    IF type \in DOMAIN est THEN est[type].mean ELSE RInt(FallbackTime)

\* ---- #schedule ----------------------------------------------------------
\* The array the code calls eligibleWorkers, as the sequence of the pool
\* indices of its elements (filter keeps the pool order).
\* mutation of hasRoom: admits a worker that is exactly at capacity
hasRoomAtCapacity(running) == running <= localQueueSize

\* the filter predicate: running < this.#localQueueSize
hasRoom(running) == running < localQueueSize

RECURSIVE FilterFrom(_, _, _)
FilterFrom(ws, i, n) ==
    IF i >= n THEN <<>>
    ELSE IF hasRoom(ws[i].running)
         THEN <<i>> \o FilterFrom(ws, i + 1, n)
         ELSE FilterFrom(ws, i + 1, n)

AllFrom(n) == [k \in 1 .. n |-> k - 1]

\* mutation of eligibleWorkers: the priority flag is ignored
eligibleWorkersFiltered(ws, priority) == FilterFrom(ws, 0, workerCount)

eligibleWorkers(ws, priority) ==
    IF priority THEN AllFrom(workerCount) ELSE FilterFrom(ws, 0, workerCount)

\* The index arrayMin returns is an index into eligibleWorkers; the code
\* uses it unchanged as the index into this.#workers.
postTarget(elig, minIdx) == minIdx

CallMsg(call, priority) ==
    [type |-> IF priority THEN "call_priority" ELSE "call",
     id |-> call.id, name |-> call.name]

\* mutation of charge: every worker's status is charged
chargeAll(ws, statusIdx, e) ==
    [w \in DOMAIN ws |-> [running |-> ws[w].running + 1,
                          estimate |-> RAdd(ws[w].estimate, e)]]

\* status.running++; status.estimate += estimate
charge(ws, statusIdx, e) ==
    [ws EXCEPT ![statusIdx] = [running |-> @.running + 1,
                               estimate |-> RAdd(@.estimate, e)]]

\* st = [ws, sent, adm, picks]: the state #schedule reads and writes.
\* Result: [ok, st].
schedule(st, call, priority) ==
    LET elig == eligibleWorkers(st.ws, priority)
    IN  IF Len(elig) = 0 THEN [ok |-> FALSE, st |-> st]
        ELSE
          LET minIdx == arrayMin([k \in 1 .. Len(elig) |-> st.ws[elig[k]].estimate])
              statusIdx == elig[minIdx + 1]
              workerIdx == postTarget(elig, minIdx)
              e == getEstimate(estimates, call.name)
          IN  [ok |-> TRUE,
               st |-> [ws |-> charge(st.ws, statusIdx, e),
                       sent |-> [st.sent EXCEPT
                                 ![workerIdx] = Append(@, CallMsg(call, priority))],
                       adm |-> (call.id :> [w |-> statusIdx, est |-> e]) @@ st.adm,
                       picks |-> Append(st.picks, <<statusIdx, workerIdx>>)]]

SchedState == [ws |-> workerStatus, sent |-> sent, adm |-> admitted, picks |-> <<>>]

\* ---- Completer ----------------------------------------------------------
NewCompleter == [isCompleted |-> FALSE, value |-> -1, resolves |-> 0]

\* Completer.resolve: a promise keeps the value of its first resolution.
resolve(c, v) ==
    [isCompleted |-> TRUE,
     value |-> IF c.resolves = 0 THEN v ELSE c.value,
     resolves |-> c.resolves + 1]

\* ---- debounceIdleCallback ----------------------------------------------
\* The returned function: sets `scheduled` unless it is already set.
signal(scheduled) == TRUE

\* mutation of requestIdleCallback: no `if (scheduled) return`
requestIdleCallbackAlways(scheduled, registered) == registered + 1

\* The returned function registers its callback only when none is scheduled.
requestIdleCallback(scheduled, registered) ==
    IF scheduled THEN registered ELSE registered + 1

Event(op, w, id, name, priority, ok, n, picks) ==
    [op |-> op, w |-> w, id |-> id, name |-> name, priority |-> priority,
     ok |-> ok, n |-> n, picks |-> picks]

\* Microtasks (the continuations of awaiting call()s) run before any other
\* task once the gate has opened.
Draining == isReady /\ waiting # <<>>

CallsMade == jobId + Len(waiting)

\* ---- constructor --------------------------------------------------------
Init ==
    /\ workerCount \in 0 .. MaxWorkers
    /\ localQueueSize \in 0 .. MaxLocalQueue
    /\ workerStatus = [i \in Workers |-> [estimate |-> RInt(0), running |-> 0]]
    /\ jobId = 0
    /\ jobs = {}
    /\ futures = <<>>
    /\ readyCount = 0
    /\ isReady = FALSE
    /\ \E snap \in Snapshots :
          /\ estimates = [n \in DOMAIN snap |-> [length |-> 1, mean |-> RInt(snap[n])]]
          /\ seeded = DOMAIN snap
    /\ pendingEstimates = <<>>
    /\ globalQueue = <<>>
    /\ updateScheduled = FALSE
    /\ reflowScheduled = FALSE
    /\ idle = [update |-> 0, reflow |-> 0]
    /\ waiting = <<>>
    /\ sent = [i \in Workers |-> <<>>]
    /\ setupSent = [i \in Workers |-> FALSE]
    /\ completed = [i \in Workers |-> {}]
    /\ doneCount = [i \in Workers |-> 0]
    /\ dups = 0
    /\ samples = <<>>
    /\ admitted = <<>>
    /\ last = Event("init", -1, -1, "", FALSE, FALSE, 0, <<>>)

\* ---- call() -------------------------------------------------------------
\* mutation of enqueue: the job is queued although it was admitted
enqueueAlways(gq, call, ok) == Append(gq, call)

\* if (!this.#schedule(call, priority)) this.#globalQueue.push(call)
enqueue(gq, call, ok) == IF ok THEN gq ELSE Append(gq, call)

\* The part of call() after the await: lines 331-347.
CallBody(name, priority, op) ==
    LET call == [id |-> jobId, name |-> name]
        r == schedule(SchedState, call, priority)
    IN  /\ jobId' = jobId + 1
        /\ futures' = (jobId :> NewCompleter) @@ futures
        /\ jobs' = jobs \cup {jobId}
        /\ workerStatus' = r.st.ws
        /\ sent' = r.st.sent
        /\ admitted' = r.st.adm
        /\ globalQueue' = enqueue(globalQueue, call, r.ok)
        /\ last' = Event(op, -1, jobId, name, priority, r.ok, 0, r.st.picks)
        /\ UNCHANGED <<workerCount, localQueueSize, readyCount, isReady, estimates,
                       pendingEstimates, updateScheduled, reflowScheduled, idle,
                       setupSent, completed, doneCount, dups, seeded, samples>>

\* call() while the gate is open: runs to completion synchronously.
Call(name, priority) ==
    /\ isReady /\ ~Draining
    /\ CallsMade < MaxJobs
    /\ CallBody(name, priority, "call")
    /\ UNCHANGED waiting

\* call() while the gate is closed: suspends at `await this.isReady`.
CallAwait(name, priority) ==
    /\ ~isReady
    /\ CallsMade < MaxJobs
    /\ waiting' = Append(waiting, [name |-> name, priority |-> priority])
    /\ last' = Event("await", -1, -1, name, priority, FALSE, 0, <<>>)
    /\ UNCHANGED <<workerCount, localQueueSize, workerStatus, jobId, jobs, futures,
                   readyCount, isReady, estimates, pendingEstimates, globalQueue,
                   updateScheduled, reflowScheduled, idle, sent, setupSent, completed,
                   doneCount, dups, seeded, samples, admitted>>

\* The continuation of a suspended call(), in the order of suspension.
CallResume ==
    /\ Draining
    /\ CallBody(Head(waiting).name, Head(waiting).priority, "resume")
    /\ waiting' = Tail(waiting)

\* ---- #onMessage, case "setup" ------------------------------------------
\* mutation of allReady: the gate opens on the first "setup"
allReadyOnFirst(count) == count >= 1

\* this.#readyCount === this.#workers.length
allReady(count) == count = workerCount

OnSetup(w) ==
    /\ ~Draining
    /\ ~setupSent[w]
    /\ setupSent' = [setupSent EXCEPT ![w] = TRUE]
    /\ sent' = [sent EXCEPT ![w] = Append(@, [type |-> "setup_ack",
                                               id |-> localQueueSize, name |-> ""])]
    /\ readyCount' = readyCount + 1
    /\ isReady' = IF allReady(readyCount + 1) THEN TRUE ELSE isReady
    /\ last' = Event("setup", w, -1, "", FALSE, FALSE, 0, <<>>)
    /\ UNCHANGED <<workerCount, localQueueSize, workerStatus, jobId, jobs, futures,
                   estimates, pendingEstimates, globalQueue, updateScheduled,
                   reflowScheduled, idle, waiting, completed, doneCount, dups, seeded,
                   samples, admitted>>

\* ---- #onMessage, case "done" -------------------------------------------
\* mutation of deleteJob: the completer stays in the map
deleteJobNever(js, id) == js

\* this.#jobs.delete(id)
deleteJob(js, id) == js \ {id}

\* mutation of needsReflow: an idle worker signals whatever the queue holds
needsReflowWhenIdle(running, gq) == running = 0

\* mutation of needsReflow: a single queued job does not wake the reflow
needsReflowLongQueue(running, gq) == running = 0 /\ Len(gq) > 1

\* if (!status.running && this.#globalQueue.length)
needsReflow(running, gq) == running = 0 /\ Len(gq) # 0

OnDone(w, id, name, result, dt, op) ==
    LET running == workerStatus[w].running - 1
    IN  /\ jobs' = deleteJob(jobs, id)
        /\ futures' = IF id \in jobs THEN [futures EXCEPT ![id] = resolve(@, result)]
                      ELSE futures
        /\ workerStatus' = [workerStatus EXCEPT
              ![w] = [running |-> running,
                      estimate |-> RSub(@.estimate, getEstimate(estimates, name))]]
        /\ pendingEstimates' = Append(pendingEstimates, [name |-> name, dt |-> dt])
        /\ samples' = Append(samples, [name |-> name, dt |-> dt])
        /\ updateScheduled' = signal(updateScheduled)
        /\ reflowScheduled' = IF needsReflow(running, globalQueue)
                              THEN signal(reflowScheduled) ELSE reflowScheduled
        /\ idle' = [update |-> requestIdleCallback(updateScheduled, idle.update),
                    reflow |-> IF needsReflow(running, globalQueue)
                               THEN requestIdleCallback(reflowScheduled, idle.reflow)
                               ELSE idle.reflow]
        /\ doneCount' = [doneCount EXCEPT ![w] = @ + 1]
        /\ last' = Event(op, w, id, name, FALSE, id \in jobs, result, <<>>)
        /\ UNCHANGED <<workerCount, localQueueSize, jobId, readyCount, isReady,
                       estimates, globalQueue, waiting, sent, setupSent, seeded,
                       admitted>>

IsCall(m) == m.type \in {"call", "call_priority"}

\* A worker finishes a job that was posted to it and reports it once.
Done(w, k, dt) ==
    /\ ~Draining
    /\ k \in 1 .. Len(sent[w])
    /\ IsCall(sent[w][k])
    /\ sent[w][k].id \notin completed[w]
    /\ completed' = [completed EXCEPT ![w] = @ \cup {sent[w][k].id}]
    /\ OnDone(w, sent[w][k].id, sent[w][k].name, sent[w][k].id, dt, "done")
    /\ UNCHANGED dups

\* ---- idle callbacks -----------------------------------------------------
RECURSIVE FoldEstimates(_, _, _)
FoldEstimates(est, pend, i) ==
    IF i > Len(pend) THEN est
    ELSE LET name == pend[i].name
             dt == pend[i].dt
             len == est[name].length + 1
             m == est[name].mean
             mean == Norm(m[1] * (len - 1) + dt * m[2], m[2] * len)
             folded == IF name \notin DOMAIN est
                       THEN (name :> [length |-> 1, mean |-> RInt(dt)]) @@ est
                       ELSE [est EXCEPT ![name] = [length |-> len, mean |-> mean]]
         \* the table after this entry is the table the next entry reads
         IN  CHOOSE r \in {FoldEstimates(e, pend, i + 1) : e \in {folded}} : TRUE

\* The debounced body of #updateEstimates; the buffer is left as it is.
RunUpdateEstimates ==
    /\ ~Draining
    /\ idle.update > 0
    /\ idle' = [idle EXCEPT !.update = @ - 1]
    /\ updateScheduled' = FALSE
    /\ estimates' = FoldEstimates(estimates, pendingEstimates, 1)
    /\ last' = Event("update", -1, -1, "", FALSE, FALSE, Len(pendingEstimates), <<>>)
    /\ UNCHANGED <<workerCount, localQueueSize, workerStatus, jobId, jobs, futures,
                   readyCount, isReady, pendingEstimates, globalQueue,
                   reflowScheduled, waiting, sent, setupSent, completed, doneCount,
                   dups, seeded, samples, admitted>>

\* The while loop of #reflow: result [i, st].
RECURSIVE ReflowLoop(_, _, _)
ReflowLoop(st, gq, i) ==
    IF i >= Len(gq) THEN [i |-> i, st |-> st]
    ELSE LET r == schedule(st, gq[i + 1], FALSE)
         IN  IF ~r.ok THEN [i |-> i, st |-> st]
             ELSE ReflowLoop(r.st, gq, i + 1)

\* mutation of splice: one entry too many is removed
spliceOneMore(gq, i) == SubSeq(gq, i + 2, Len(gq))

\* this.#globalQueue.splice(0, i)
splice(gq, i) == SubSeq(gq, i + 1, Len(gq))

reflow(st, gq) ==
    IF Len(gq) = 0 THEN [i |-> 0, st |-> st] ELSE ReflowLoop(st, gq, 0)

RunReflow ==
    /\ ~Draining
    /\ idle.reflow > 0
    /\ idle' = [idle EXCEPT !.reflow = @ - 1]
    /\ reflowScheduled' = FALSE
    /\ LET r == reflow(SchedState, globalQueue)
       IN  /\ workerStatus' = r.st.ws
           /\ sent' = r.st.sent
           /\ admitted' = r.st.adm
           /\ globalQueue' = splice(globalQueue, r.i)
           /\ last' = Event("reflow", -1, -1, "", FALSE, FALSE, r.i, r.st.picks)
    /\ UNCHANGED <<workerCount, localQueueSize, jobId, jobs, futures, readyCount,
                   isReady, estimates, pendingEstimates, updateScheduled, waiting,
                   setupSent, completed, doneCount, dups, seeded, samples>>

\* ---- specification ------------------------------------------------------
Next ==
    \/ \E name \in JobNames, priority \in BOOLEAN : Call(name, priority)
    \/ \E name \in JobNames, priority \in BOOLEAN : CallAwait(name, priority)
    \/ CallResume
    \/ \E w \in Workers : OnSetup(w)
    \/ \E w \in Workers, k \in 1 .. (MaxJobs + 1), dt \in Durations : Done(w, k, dt)
    \/ RunUpdateEstimates
    \/ RunReflow

Spec == Init /\ [][Next]_vars

\* ---- workers that repeat a "done" --------------------------------------
\* A worker posts "done" again for a job it has already reported; the
\* repeated message carries the same id and name.
DupDone(w, id, dt) ==
    /\ ~Draining
    /\ dups < MaxDups
    /\ id \in completed[w]
    /\ dups' = dups + 1
    /\ \E k \in 1 .. Len(sent[w]) :
          /\ IsCall(sent[w][k]) /\ sent[w][k].id = id
          /\ OnDone(w, id, sent[w][k].name, id, dt, "dup")
    /\ UNCHANGED completed

NextDup ==
    \/ Next
    \/ \E w \in Workers, id \in 0 .. (MaxJobs - 1), dt \in Durations : DupDone(w, id, dt)

SpecDup == Init /\ [][NextDup]_vars

\* ---- scheduling assumptions for liveness --------------------------------
\* What the environment keeps doing: the microtask queue resumes suspended
\* calls, every worker posts its "setup" and a "done" for each job posted
\* to it, and requestIdleCallback runs the callbacks it holds.  call() is
\* not among them: the callers may stop calling at any time.
Progress ==
    \/ CallResume
    \/ \E w \in Workers : OnSetup(w)
    \/ \E w \in Workers, k \in 1 .. (MaxJobs + 1), dt \in Durations : Done(w, k, dt)
    \/ RunUpdateEstimates
    \/ RunReflow

Fairness == WF_vars(Progress)

FairSpec == Init /\ [][Next]_vars /\ Fairness

\* ---- helpers for the properties ----------------------------------------
CallStep(op) == op \in {"call", "resume"}

NumCalls(log) == Len(SelectSeq(log, IsCall))

InitialStatus == [estimate |-> RInt(0), running |-> 0]

\* The worker the admission step is specified to choose in the current
\* state: eligible, minimal estimatedBacklog, lowest index among ties.
EligibleSet(priority) ==
    IF priority THEN Workers
    ELSE {w \in Workers : workerStatus[w].running < localQueueSize}

IsWinner(w, priority) ==
    /\ w \in EligibleSet(priority)
    /\ \A v \in EligibleSet(priority) :
          /\ ~RLess(workerStatus[v].estimate, workerStatus[w].estimate)
          /\ (workerStatus[v].estimate = workerStatus[w].estimate => w <= v)

\* Worker w's status was charged with one more job in this step.
Charged(w) == workerStatus'[w].running = workerStatus[w].running + 1

\* Worker w was posted exactly the message m in this step.
Posted(w, m) == sent'[w] = Append(sent[w], m)

\* C1: every admission by call() charges and posts to one and the same
\* worker, the eligible worker with minimal estimatedBacklog (lowest index
\* on ties); every admission inside a reflow pass charges the worker it
\* posts to.
C1_AdmissionChoosesWorker ==
    [][ /\ (CallStep(last'.op) /\ EligibleSet(last'.priority) # {}) =>
              \E w \in Workers :
                  /\ IsWinner(w, last'.priority)
                  /\ Charged(w)
                  /\ Posted(w, CallMsg([id |-> last'.id, name |-> last'.name],
                                       last'.priority))
        /\ (last'.op = "reflow") =>
              \A k \in 1 .. Len(last'.picks) : last'.picks[k][1] = last'.picks[k][2]
      ]_vars

\* C2: runningCount of a worker = call messages posted to it minus "done"
\* events received from it.
C2_RunningIsSentMinusDone ==
    \A w \in Workers :
        workerStatus[w].running = NumCalls(sent[w]) - doneCount[w]

\* No call message was posted and no status changed in this step.
NothingAdmitted ==
    /\ workerStatus' = workerStatus
    /\ \A w \in Workers : sent'[w] = sent[w]

LastCall == [id |-> last.id, name |-> last.name]

\* C3: the gate opens exactly in the step that processes the N-th "setup"
\* and never closes; while it is closed no id is allocated, no job is
\* pending, no status has changed and no call message has been posted; a
\* call() made while it is closed only suspends, and once the gate is open
\* the suspended calls are resumed, in order, before anything else runs.
C3_ReadinessGate ==
    /\ [](~isReady =>
            /\ jobId = 0 /\ jobs = {} /\ globalQueue = <<>>
            /\ \A w \in Workers :
                  workerStatus[w] = InitialStatus /\ NumCalls(sent[w]) = 0)
    /\ [][ /\ isReady => isReady'
           /\ (~isReady /\ isReady') <=>
                 (last'.op = "setup" /\ readyCount = workerCount - 1
                                     /\ readyCount' = workerCount)
           /\ (last'.op = "await") =>
                 /\ ~isReady
                 /\ waiting' = Append(waiting, [name |-> last'.name,
                                                priority |-> last'.priority])
           /\ Draining => last'.op = "resume"
           /\ (last'.op = "resume") =>
                 /\ isReady
                 /\ last'.name = Head(waiting).name
                 /\ last'.priority = Head(waiting).priority
                 /\ waiting' = Tail(waiting)
                 /\ jobId' = jobId + 1
                 /\ jobs' = jobs \cup {jobId}
                 /\ (~NothingAdmitted \/ globalQueue' # globalQueue)
         ]_vars

\* a call() that waited for a pool of two has been resumed and admitted
C3_Witness ==
    workerCount >= 2 /\ isReady /\ last.op = "resume" /\ last.ok /\ jobId >= 2

\* C4 as stated: a non-priority call is rejected iff every worker's
\* runningCount EQUALS the capacity, and is then appended to the queue.
C4_RejectedIffAllEqualCapacity ==
    [][ (CallStep(last'.op) /\ ~last'.priority) =>
            (NothingAdmitted <=>
                \A w \in Workers : workerStatus[w].running = localQueueSize)
      ]_vars

\* C4 amended: a non-priority call is rejected from direct admission iff
\* every worker's runningCount is AT LEAST the capacity; exactly then the
\* job is appended at the tail of the Global Queue, and the Global Queue
\* lists its jobs in call() order (increasing id).
C4_RejectedIffAllAtLeastCapacity ==
    /\ [](\A k \in 1 .. (Len(globalQueue) - 1) :
              globalQueue[k].id < globalQueue[k + 1].id)
    /\ [][ (CallStep(last'.op) /\ ~last'.priority) =>
             /\ NothingAdmitted <=>
                   \A w \in Workers : workerStatus[w].running >= localQueueSize
             /\ IF NothingAdmitted
                THEN globalQueue' = Append(globalQueue,
                                           [id |-> last'.id, name |-> last'.name])
                ELSE globalQueue' = globalQueue
         ]_vars

\* a non-priority call was rejected behind another queued job while a
\* worker holds more jobs than the capacity
C4_Witness ==
    /\ CallStep(last.op) /\ ~last.priority /\ ~last.ok
    /\ localQueueSize >= 1
    /\ Len(globalQueue) >= 2
    /\ globalQueue[Len(globalQueue)] = LastCall

\* C5: with a non-empty pool every priority call() is admitted at once: one
\* worker is charged and is posted the call_priority message, whatever the
\* runningCounts are, and the Global Queue is left as it was.
C5_PriorityAlwaysAdmitted ==
    [][ (CallStep(last'.op) /\ last'.priority /\ workerCount > 0) =>
            /\ \E w \in Workers :
                  /\ Charged(w)
                  /\ Posted(w, CallMsg([id |-> last'.id, name |-> last'.name], TRUE))
                  /\ \A v \in Workers \ {w} :
                        sent'[v] = sent[v] /\ workerStatus'[v] = workerStatus[v]
            /\ globalQueue' = globalQueue
      ]_vars

\* a priority call was admitted to a worker that was already at capacity
C5_Witness ==
    /\ CallStep(last.op) /\ last.priority /\ last.ok
    /\ localQueueSize >= 1
    /\ \A w \in Workers : workerStatus[w].running >= localQueueSize
    /\ \E w \in Workers :
          /\ workerStatus[w].running > localQueueSize
          /\ sent[w][Len(sent[w])] = CallMsg(LastCall, TRUE)

DoneStep(op) == op \in {"done", "dup"}

\* C6: a "done" whose id is pending takes one off the sender's runningCount,
\* removes the entry and resolves its future with the delivered result; a
\* "done" whose id is no longer pending resolves nothing and leaves the
\* statuses, the pending-estimate buffer and the Global Queue unchanged.
C6_SecondDoneIsNoOp ==
    [][ DoneStep(last'.op) =>
          IF last'.id \in jobs
          THEN /\ workerStatus'[last'.w].running = workerStatus[last'.w].running - 1
               /\ jobs' = jobs \ {last'.id}
               /\ futures'[last'.id] =
                     [isCompleted |-> TRUE, value |-> last'.n, resolves |-> 1]
          ELSE /\ futures' = futures
               /\ jobs' = jobs
               /\ workerStatus' = workerStatus
               /\ pendingEstimates' = pendingEstimates
               /\ globalQueue' = globalQueue
      ]_vars

\* ---- sums ---------------------------------------------------------------
RECURSIVE SumDt(_, _)
SumDt(seq, i) == IF i > Len(seq) THEN 0 ELSE seq[i].dt + SumDt(seq, i + 1)

SamplesOf(name) == SelectSeq(samples, LAMBDA s : s.name = name)

RECURSIVE SumEst(_)
SumEst(ids) ==
    IF ids = {} THEN RInt(0)
    ELSE LET id == CHOOSE x \in ids : TRUE
         IN  RAdd(admitted[id].est, SumEst(ids \ {id}))

\* the jobs charged to worker w's status and not yet completed
Outstanding(w) == {id \in DOMAIN admitted : admitted[id].w = w /\ id \in jobs}

\* C7: for an unseeded type, once the recomputation has run after the last
\* of n received samples, the entry has length n and mean (d1+...+dn)/n.
C7_MeanIsAverageOfSamples ==
    \A name \in JobNames :
        (name \notin seeded /\ ~updateScheduled /\ Len(SamplesOf(name)) >= 1) =>
            /\ name \in DOMAIN estimates
            /\ estimates[name].length = Len(SamplesOf(name))
            /\ estimates[name].mean =
                  Norm(SumDt(SamplesOf(name), 1), Len(SamplesOf(name)))

\* C8: every worker's estimatedBacklog is the sum of the estimates that
\* were added for its admitted, uncompleted jobs; it is never negative and
\* is 0 when runningCount is 0.
C8_BacklogIsSumOfAdmitted ==
    \A w \in Workers :
        /\ workerStatus[w].estimate = SumEst(Outstanding(w))
        /\ ~RIsNeg(workerStatus[w].estimate)
        /\ (workerStatus[w].running = 0 => workerStatus[w].estimate = RInt(0))

\* number of earlier picks of the same status in one reflow pass
PicksBefore(picks, k) == Cardinality({j \in 1 .. (k - 1) : picks[j][1] = picks[k][1]})

\* C9: a reflow pass removes a prefix of the Global Queue and keeps the
\* rest in order; every removed job, in turn, went to a worker that had
\* room at that moment and was posted to exactly one worker as a plain
\* call; the pass stops only at the end of the queue or when no worker has
\* room for the next job.
C9_ReflowTakesLongestPrefix ==
    [][ (last'.op = "reflow") =>
          LET i == last'.n
              picks == last'.picks
          IN  /\ i \in 0 .. Len(globalQueue)
              /\ globalQueue' = SubSeq(globalQueue, i + 1, Len(globalQueue))
              /\ Len(picks) = i
              /\ \A k \in 1 .. i :
                    /\ workerStatus[picks[k][1]].running + PicksBefore(picks, k)
                          < localQueueSize
                    /\ Cardinality({w \in Workers :
                          \E m \in 1 .. Len(sent'[w]) :
                              sent'[w][m] = CallMsg(globalQueue[k], FALSE)}) = 1
                    /\ \A w \in Workers : \A m \in 1 .. Len(sent[w]) :
                          IsCall(sent[w][m]) => sent[w][m].id # globalQueue[k].id
              /\ \A w \in Workers :
                    /\ NumCalls(sent'[w]) - NumCalls(sent[w])
                          = Cardinality({k \in 1 .. i : picks[k][2] = w})
                    /\ workerStatus'[w].running - workerStatus[w].running
                          = Cardinality({k \in 1 .. i : picks[k][1] = w})
              /\ (i < Len(globalQueue)) =>
                    \A w \in Workers : workerStatus'[w].running >= localQueueSize
      ]_vars

\* a pass admitted the head of the queue and stopped at the job behind it
C9_Witness ==
    /\ last.op = "reflow" /\ last.n >= 1
    /\ localQueueSize >= 1
    /\ Len(globalQueue) >= 1

AllResolved ==
    /\ waiting = <<>>
    /\ jobs = {}
    /\ globalQueue = <<>>
    /\ \A id \in DOMAIN futures : futures[id].isCompleted

\* Nothing is left for the environment to deliver: no suspended call, no
\* "setup" or "done" outstanding, no idle callback armed.
Quiescent ==
    /\ ~Draining
    /\ \A w \in Workers : setupSent[w]
    /\ \A w \in Workers : \A k \in 1 .. Len(sent[w]) :
          IsCall(sent[w][k]) => sent[w][k].id \in completed[w]
    /\ ~updateScheduled
    /\ ~reflowScheduled

\* With at least one worker and localQueueSize >= 1, a dispatcher that has
\* come to rest has resolved every call (the part of C10 that the code
\* does satisfy; every step strictly advances a counter or disarms a
\* trigger, so every fair run comes to rest).
QuiescentMeansResolved ==
    (workerCount >= 1 /\ localQueueSize >= 1 /\ Quiescent) => AllResolved

\* C10: with localQueueSize >= 1, fair workers and idle callbacks, and
\* finitely many calls, every call()'s future is eventually resolved and
\* the Global Queue drains.
C10_EveryCallResolves ==
    (localQueueSize >= 1) => <>[]AllResolved

\* how often job id occurs in the Global Queue / in worker w's call messages
InQueue(id) == Cardinality({k \in 1 .. Len(globalQueue) : globalQueue[k].id = id})

PostedTo(w, id) ==
    Cardinality({k \in 1 .. Len(sent[w]) : IsCall(sent[w][k]) /\ sent[w][k].id = id})

RECURSIVE SumPosted(_, _)
SumPosted(id, n) == IF n = 0 THEN 0 ELSE PostedTo(n - 1, id) + SumPosted(id, n - 1)

TimesPosted(id) == SumPosted(id, workerCount)

\* C11: every created, uncompleted job is in exactly one place: once in the
\* Global Queue or posted once to one worker; no job is ever posted twice,
\* and no queued job has been posted.
C11_JobInExactlyOnePlace ==
    /\ \A id \in jobs : InQueue(id) + TimesPosted(id) = 1
    /\ \A id \in DOMAIN futures :
          /\ TimesPosted(id) <= 1
          /\ InQueue(id) <= 1
          /\ ~(InQueue(id) >= 1 /\ TimesPosted(id) >= 1)

\* a reflow pass has moved a job to a worker while another job stays queued
C11_Witness ==
    /\ last.op = "reflow"
    /\ \E a \in jobs, b \in jobs :
          /\ InQueue(a) = 1 /\ TimesPosted(a) = 0
          /\ InQueue(b) = 0 /\ TimesPosted(b) = 1 /\ b > a - 2 /\ b < a
          /\ last.n >= 1

\* C12: ids are handed out in call order, 0, 1, 2, ..., and never again;
\* a future is resolved at most once however many "done" events name its
\* id, and its #jobs entry is removed at the first of them and only then.
C12_IdsUniqueResolvedOnce ==
    /\ [](/\ DOMAIN futures = 0 .. (jobId - 1)
          /\ jobs \subseteq DOMAIN futures
          /\ \A id \in DOMAIN futures :
                /\ futures[id].resolves <= 1
                /\ (id \in jobs <=> futures[id].resolves = 0))
    /\ [][ /\ CallStep(last'.op) =>
                 /\ last'.id = jobId
                 /\ jobId' = jobId + 1
                 /\ jobId \notin DOMAIN futures
                 /\ jobs' = jobs \cup {jobId}
           /\ ~CallStep(last'.op) => (jobId' = jobId /\ jobs' \subseteq jobs)
           /\ DoneStep(last'.op) =>
                 IF last'.id \in jobs
                 THEN /\ jobs' = jobs \ {last'.id}
                      /\ futures'[last'.id].resolves = 1
                      /\ futures'[last'.id].value = last'.n
                 ELSE jobs' = jobs /\ futures' = futures
           /\ ~DoneStep(last'.op) =>
                 \A id \in DOMAIN futures : futures'[id] = futures[id]
         ]_vars

\* a repeated "done" arrived for a job whose future was already resolved
C12_Witness ==
    /\ last.op = "dup"
    /\ last.id \notin jobs
    /\ futures[last.id].resolves = 1
    /\ jobId >= 2

\* no priority call has been posted to any worker
NoPriorityPosted ==
    \A w \in Workers : \A k \in 1 .. Len(sent[w]) : sent[w][k].type # "call_priority"

\* jobs posted to worker w that it has not reported done
AtWorker(w) == NumCalls(sent[w]) - Cardinality(completed[w])

\* C13: without priority calls no worker ever holds more unreported jobs
\* than the capacity it was told in its setup_ack.
C13_LocalQueueWithinCapacity ==
    NoPriorityPosted => \A w \in Workers : AtWorker(w) <= localQueueSize

\* ---- the idle scheduler ------------------------------------------------
\* requestIdleCallback runs a registered callback once the event loop is
\* idle; a suspended call() continuation (a microtask) runs before that.
IdleFairness ==
    /\ WF_vars(CallResume)
    /\ WF_vars(RunUpdateEstimates)
    /\ WF_vars(RunReflow)

IdleSpec == Init /\ [][Next]_vars /\ IdleFairness

Scheduled == [update |-> updateScheduled, reflow |-> reflowScheduled]
Triggers == {"update", "reflow"}
RunOp(t) == IF t = "update" THEN "update" ELSE "reflow"

\* Whether the handler that ran in this step called the trigger t.
Signalled(t) ==
    /\ DoneStep(last'.op)
    /\ t = "reflow" => (workerStatus'[last'.w].running = 0 /\ Len(globalQueue) # 0)

\* C14: for both debounced actions, at most one deferred execution is
\* registered at a time and the `scheduled` flag is set exactly while one is;
\* a signal while one is registered registers nothing further, a signal
\* with none registered (so also any signal after an execution) registers
\* one; a registration only disappears by executing the action; and every
\* registered execution eventually runs.
C14_CoalescingTrigger ==
    /\ [](\A t \in Triggers : idle[t] \in {0, 1} /\ (Scheduled[t] <=> idle[t] = 1))
    /\ [][\A t \in Triggers :
            /\ (Signalled(t) /\ idle[t] = 1) => idle'[t] = 1
            /\ (Signalled(t) /\ idle[t] = 0) => idle'[t] = 1
            /\ (last'.op = RunOp(t)) => (idle[t] = 1 /\ idle'[t] = 0)
            /\ (~Signalled(t) /\ last'.op # RunOp(t)) => idle'[t] = idle[t]]_vars
    /\ \A t \in Triggers : (idle[t] = 1) ~> (idle[t] = 0)

\* Two completions signalled the estimate trigger before it ran, it ran
\* once over both samples, and a later completion armed it again.
C14_Witness ==
    /\ last.op = "done"
    /\ idle.update = 1
    /\ Len(samples) >= 3
    /\ \E name \in DOMAIN estimates : estimates[name].length >= 2

\* ---- getTimeSnapshot ---------------------------------------------------
\* mutation of getTimeSnapshot: seeds that no sample has touched are left out
getTimeSnapshotSampledOnly(est) ==
    [key \in {k \in DOMAIN est : ~(k \in seeded /\ est[k].length = 1)} |-> est[key].mean]

\* for (const key of keys) snapshot[key] = this.#estimates.get(key).mean
getTimeSnapshot(est) == [key \in DOMAIN est |-> est[key].mean]

\* A caller takes a snapshot; the returned record is kept in `last`.
GetTimeSnapshot ==
    /\ ~Draining
    /\ last' = [snapshot |-> getTimeSnapshot(estimates)] @@
                Event("snapshot", -1, -1, "", FALSE, FALSE, 0, <<>>)
    /\ UNCHANGED <<workerCount, localQueueSize, workerStatus, jobId, jobs, futures,
                   readyCount, isReady, estimates, pendingEstimates, globalQueue,
                   updateScheduled, reflowScheduled, idle, waiting, sent, setupSent,
                   completed, doneCount, dups, seeded, samples, admitted>>

NextSnap == Next \/ GetTimeSnapshot

SnapSpec == Init /\ [][NextSnap]_vars

\* Everything but the record of the last handler.
dispatcherState ==
    <<workerCount, localQueueSize, workerStatus, jobId, jobs, futures, readyCount,
      isReady, estimates, pendingEstimates, globalQueue, updateScheduled,
      reflowScheduled, idle, waiting, sent, setupSent, completed, doneCount, dups,
      seeded, samples, admitted>>

\* The value the constructor was given for a seeded name.
SeedOf(name) == (CHOOSE s \in Snapshots : name \in DOMAIN s)[name]

\* C15: getTimeSnapshot returns one entry for every name of the estimate
\* table, its current mean (the construction-time seed while no sample of
\* that name has been received), and changes nothing of the dispatcher; a
\* call() that admits a job of a seeded name before any sample of that name
\* was received adds the seed, not the fallback, to the charged worker's
\* estimatedBacklog.
C15_SnapshotIsEstimateTable ==
    [][ /\ (last'.op = "snapshot") =>
              /\ DOMAIN last'.snapshot = DOMAIN estimates
              /\ \A k \in DOMAIN estimates : last'.snapshot[k] = estimates[k].mean
              /\ \A k \in seeded :
                    SamplesOf(k) = <<>> => last'.snapshot[k] = RInt(SeedOf(k))
              /\ dispatcherState' = dispatcherState
        /\ (CallStep(last'.op) /\ last'.ok /\ last'.name \in seeded
                                /\ SamplesOf(last'.name) = <<>>) =>
              \E w \in Workers :
                  /\ Charged(w)
                  /\ workerStatus'[w].estimate =
                        RAdd(workerStatus[w].estimate, RInt(SeedOf(last'.name)))
                  /\ SeedOf(last'.name) # FallbackTime
      ]_vars

\* a snapshot taken from a seeded dispatcher after a job of the seeded name
\* was admitted and before any sample arrived
C15_Witness ==
    /\ last.op = "snapshot"
    /\ "add" \in seeded
    /\ last.snapshot = [n \in {"add"} |-> RInt(2)]
    /\ samples = <<>>
    /\ \E w \in Workers : workerStatus[w] = [running |-> 1, estimate |-> RInt(2)]

\* C16: a pool size that resolves to zero is rejected by the constructor,
\* so every constructed dispatcher has at least one worker (and with it a
\* readiness gate that some "setup" can open).
C16_ZeroPoolRejected ==
    workerCount >= 1

\* C17: handling a "done" of worker w (for a pending job or not) arms the
\* reflow trigger when w's runningCount after the decrement is zero and the
\* Global Queue is non-empty, and otherwise leaves the reflow trigger as it
\* was; it appends exactly one sample, carrying the name of the message, to
\* the pending-estimate buffer and arms the estimate trigger.
C17_CompletionSignals ==
    [][ DoneStep(last'.op) =>
           LET w == last'.w
               due == workerStatus'[w].running = 0 /\ globalQueue # <<>>
           IN  /\ workerStatus'[w].running = workerStatus[w].running - 1
               /\ due => (reflowScheduled' /\ idle'.reflow = 1)
               /\ ~due => (reflowScheduled' = reflowScheduled
                           /\ idle'.reflow = idle.reflow)
               /\ \E dt \in Durations :
                     pendingEstimates' =
                         Append(pendingEstimates, [name |-> last'.name, dt |-> dt])
               /\ updateScheduled' /\ idle'.update = 1
      ]_vars

\* a repeated "done" (no pending job) emptied a worker's runningCount while
\* the Global Queue held a job: sample appended, both triggers armed
C17_Witness ==
    /\ last.op = "dup"
    /\ ~last.ok
    /\ workerStatus[last.w].running = 0
    /\ globalQueue # <<>>
    /\ reflowScheduled
    /\ Len(pendingEstimates) >= 2

\* C18: with localQueueSize >= 1, while the Global Queue is non-empty and
\* no reflow is pending, no worker is idle (runningCount = 0): some later
\* completion can still signal the reflow.
C18_NoLostWakeUp ==
    (localQueueSize >= 1 /\ globalQueue # <<>> /\ ~reflowScheduled) =>
        \A w \in Workers : workerStatus[w].running >= 1

\* a reflow pass admitted a queued job and left another one queued, with
\* every worker busy and no further reflow pending
C18_Witness ==
    /\ localQueueSize >= 1
    /\ last.op = "reflow"
    /\ last.n >= 1
    /\ globalQueue # <<>>
    /\ ~reflowScheduled
    /\ \A w \in Workers : workerStatus[w].running >= 1

SetupAcks(w) ==
    Cardinality({k \in 1 .. Len(sent[w]) : sent[w][k].type = "setup_ack"})

\* C19: each "setup" received from a worker is answered, in the same step,
\* by exactly one setup_ack to that worker carrying the configured
\* localQueueSize, and no other step posts a setup_ack; every call or
\* call_priority message in a worker's log comes after its setup_ack.
C19_HandshakeOrdering ==
    /\ [](\A w \in Workers :
            /\ SetupAcks(w) = (IF setupSent[w] THEN 1 ELSE 0)
            /\ \A k \in 1 .. Len(sent[w]) :
                  /\ sent[w][k].type = "setup_ack" => sent[w][k].id = localQueueSize
                  /\ IsCall(sent[w][k]) =>
                        \E j \in 1 .. (k - 1) : sent[w][j].type = "setup_ack")
    /\ [][\A w \in Workers :
            IF last'.op = "setup" /\ last'.w = w
            THEN sent'[w] = Append(sent[w], [type |-> "setup_ack",
                                             id |-> localQueueSize, name |-> ""])
            ELSE SetupAcks(w)' = SetupAcks(w)]_vars

\* a worker that acknowledged last has been posted a job by a reflow pass
\* and another one by call()
C19_Witness ==
    /\ workerCount >= 2
    /\ last.op = "reflow" /\ last.n >= 1
    /\ \E w \in Workers :
          /\ Len(sent[w]) >= 3
          /\ sent[w][1].type = "setup_ack"
          /\ \A k \in 2 .. Len(sent[w]) : IsCall(sent[w][k])

\* The workers whose status differs between the two ends of the step.
StatusChanged == {w \in Workers : workerStatus'[w] # workerStatus[w]}

\* C20: a call() that is admitted changes the status of exactly one worker
\* (runningCount + 1, estimatedBacklog + the job's estimate) and leaves the
\* estimate table and the Global Queue as they were; a call() that is not
\* admitted changes no status and posts no message; a "done" from worker i
\* changes the status of worker i only (runningCount - 1) and leaves the
\* Global Queue and the estimate table as they were.
C20_StatusFrame ==
    [][ /\ (CallStep(last'.op) /\ last'.ok) =>
              /\ \E w \in Workers :
                    /\ StatusChanged = {w}
                    /\ workerStatus'[w].running = workerStatus[w].running + 1
                    /\ workerStatus'[w].estimate =
                          RAdd(workerStatus[w].estimate,
                               getEstimate(estimates, last'.name))
              /\ estimates' = estimates
              /\ globalQueue' = globalQueue
        /\ (CallStep(last'.op) /\ ~last'.ok) =>
              /\ StatusChanged = {}
              /\ sent' = sent
              /\ estimates' = estimates
        /\ DoneStep(last'.op) =>
              /\ StatusChanged = {last'.w}
              /\ workerStatus'[last'.w].running = workerStatus[last'.w].running - 1
              /\ globalQueue' = globalQueue
              /\ estimates' = estimates
              /\ sent' = sent
      ]_vars

\* with two workers: one call was admitted, one was declined and queued,
\* and one worker has reported a job done
C20_Witness ==
    /\ workerCount >= 2
    /\ last.op = "done"
    /\ globalQueue # <<>>
    /\ \E w \in Workers : NumCalls(sent[w]) >= 1 /\ w # last.w

\* C21: a seeded type always has its entry, and once the recomputation has
\* run after the last of k received samples d1..dk of that type, the entry
\* has length k + 1 and mean (s + d1 + ... + dk)/(k + 1), s being the seed;
\* a type with a folded sample has an entry (entries are never deleted).
C21_SeedCountsAsOneSample ==
    \A name \in JobNames :
        /\ (name \in seeded) => name \in DOMAIN estimates
        /\ (~updateScheduled /\ SamplesOf(name) # <<>>) => name \in DOMAIN estimates
        /\ (name \in seeded /\ ~updateScheduled) =>
              /\ estimates[name].length = Len(SamplesOf(name)) + 1
              /\ estimates[name].mean =
                    Norm(SeedOf(name) + SumDt(SamplesOf(name), 1),
                         Len(SamplesOf(name)) + 1)

====
